---- MODULE Spec2Model ----
(***************************************************************************)
(* The Pokemon lookup service: a relational store (tables pokemons,        *)
(* abilities, stats, types), the startup seed loader and the request       *)
(* handlers of pokemon_api.py, with the request schemas of schemas.py and  *)
(* the table constraints of models.py.                                     *)
(*                                                                         *)
(* Text values that the code inspects character by character (a Pokemon's  *)
(* name under ILIKE, a URL under HttpUrl validation) are sequences of      *)
(* one-character strings.  JSON objects are functions from their keys, so  *)
(* that an omitted key is a key outside the DOMAIN.                        *)
(***************************************************************************)
EXTENDS Integers, Sequences, FiniteSets, Bags, TLC

VARIABLES
    pokemons, abilities, stats, types,  \* the committed rows of the four tables
    resp,       \* the last request served: its operation, its outcome and,
                \* in arg, the keys of an update's body or the kind of a fetch
    creator,    \* the create requests in flight, each at a step of its handler
    loader      \* the seed load in flight

vars == <<pokemons, abilities, stats, types, resp, creator, loader>>

\* The identifiers the requests and the seed data draw: two, so that every
\* request has another Pokemon to leave alone.
Ids == {1, 2}

\* How often the full bodies repeat an ability (child names need not be
\* unique within a Pokemon).
MaxCopies == 2

\* The create requests in flight at once.
MaxCreators == 2

Creators == 1..MaxCreators

\* Python's None; no validated URL is empty (HttpUrl has min_length 1).
None == <<>>

Range(s) == {s[k] : k \in DOMAIN s}

SeqToBag(s) == [x \in Range(s) |-> Cardinality({k \in DOMAIN s : s[k] = x})]

----------------------------------------------------------------------------
(* schemas.py *)

\* str.strip() of the URL text, as HttpUrl validation applies it.
RECURSIVE LStrip(_)
LStrip(s) == IF s # <<>> /\ Head(s) = " " THEN LStrip(Tail(s)) ELSE s

RECURSIVE RStrip(_)
RStrip(s) ==
    IF s # <<>> /\ s[Len(s)] = " " THEN RStrip(SubSeq(s, 1, Len(s) - 1)) ELSE s

\* Optional[HttpUrl]: None stays None, a URL is validated and then
\* converted with str() (pokemon_api.py 248-249, 327-328).
HttpUrl(v) == IF v = None THEN None ELSE RStrip(LStrip(v))

\* an object without one of its keys
Without(p, key) == [k \in DOMAIN p \ {key} |-> p[k]]

Field(raw, key, default) == IF key \in DOMAIN raw THEN raw[key] ELSE default

\* PokemonModel: the validated create body.
PokemonModel(raw) ==
    [id          |-> raw.id,
     name        |-> raw.name,
     height      |-> Field(raw, "height", 0),
     weight      |-> Field(raw, "weight", 0),
     xp          |-> Field(raw, "xp", 0),
     image_url   |-> HttpUrl(Field(raw, "image_url", None)),
     pokemon_url |-> HttpUrl(Field(raw, "pokemon_url", None)),
     abilities   |-> raw.abilities,
     stats       |-> raw.stats,
     types       |-> raw.types]

ScalarKeys == {"name", "height", "weight", "xp", "image_url", "pokemon_url"}

UrlKeys == {"image_url", "pokemon_url"}

\* Faulty variant: .dict() without exclude_unset, so that every field the
\* body omits comes with the schema's default.
UpdateScalarsWithDefaults(raw) ==
    [k \in ScalarKeys |->
        IF k \in DOMAIN raw
        THEN IF k \in UrlKeys THEN HttpUrl(raw[k]) ELSE raw[k]
        ELSE IF k \in UrlKeys THEN None ELSE 0]

\* PokemonUpdateModel.dict(exclude_unset=True, exclude={children}): the
\* scalar fields the caller supplied, URLs validated.
UpdateScalars(raw) ==
    [k \in DOMAIN raw \cap ScalarKeys |->
        IF k \in UrlKeys THEN HttpUrl(raw[k]) ELSE raw[k]]

----------------------------------------------------------------------------
(* models.py: the tables and their constraints *)

DB == [pokemons |-> pokemons, abilities |-> abilities,
       stats |-> stats, types |-> types]

EmptyDB == [pokemons |-> {}, abilities |-> EmptyBag,
            stats |-> EmptyBag, types |-> EmptyBag]

ChildTables == {"abilities", "stats", "types"}

\* db.query(Pokemon).filter(Pokemon.id == i)
ById(db, i) == {p \in db.pokemons : p.id = i}

\* Faulty variant: the id column without its primary key.
PrimaryKeyMissing(db, row) == TRUE

\* pokemons.id is the primary key: an INSERT of a present id is refused.
PrimaryKeyOk(db, row) == ById(db, row.id) = {}

\* rows of a child table whose pokemon_id is i
ChildRows(B, i) == [r \in {x \in DOMAIN B : x.pokemon_id = i} |-> B[r]]

\* DELETE FROM <child table> WHERE pokemon_id = i
DeleteChildRows(B, i) == [r \in {x \in DOMAIN B : x.pokemon_id # i} |-> B[r]]

\* a child object of the request with its foreign key set
WithParent(c, i) ==
    [k \in DOMAIN c \cup {"pokemon_id"} |-> IF k = "pokemon_id" THEN i ELSE c[k]]

WithoutParent(r) == [k \in DOMAIN r \ {"pokemon_id"} |-> r[k]]

\* INSERT of a list of child objects under parent i
InsertChildRows(B, list, i) ==
    B (+) SeqToBag([k \in DOMAIN list |-> WithParent(list[k], i)])

\* the relationship collection Pokemon.abilities / .stats / .types
Collection(B, i) ==
    LET own == ChildRows(B, i)
    IN  [c \in {WithoutParent(r) : r \in DOMAIN own} |-> own[WithParent(c, i)]]

----------------------------------------------------------------------------
(* PostgreSQL's ILIKE, which Pokemon.name.ilike(pokemon_name) compiles to *)

Lower(c) == IF c = "A" THEN "a" ELSE IF c = "B" THEN "b" ELSE c

LowerStr(s) == [k \in DOMAIN s |-> Lower(s[k])]

Drop(s, n) == SubSeq(s, n + 1, Len(s))

\* The pattern after a "%" with the "%" and "_" that follow it consumed:
\* <<text left, pattern left>>, or <<>> when a "_" finds no character.
RECURSIVE SkipWild(_, _)
SkipWild(t, p) ==
    IF p = <<>> THEN <<t, p>>
    ELSE IF Head(p) = "%" THEN SkipWild(t, Tail(p))
    ELSE IF Head(p) = "_"
         THEN IF t = <<>> THEN <<>> ELSE SkipWild(Tail(t), Tail(p))
    ELSE <<t, p>>

\* MatchText of the LIKE operator: "TRUE", "FALSE", "ABORT" (no match at
\* any later position either) or "ERROR" (the pattern ends with the escape
\* character).  "%" matches any run of characters, "_" any one character,
\* a backslash makes the next pattern character literal.
RECURSIVE MatchText(_, _)
RECURSIVE ScanFor(_, _, _)
MatchText(t, p) ==
    IF t = <<>> \/ p = <<>>
    THEN IF t # <<>> THEN "FALSE"
         ELSE IF SkipWild(<<>>, p) # <<>> /\ SkipWild(<<>>, p)[2] = <<>>
              THEN "TRUE" ELSE "ABORT"
    ELSE IF Head(p) = "\\"
         THEN IF Len(p) < 2 THEN "ERROR"
              ELSE IF p[2] # Head(t) THEN "FALSE"
              ELSE MatchText(Tail(t), Drop(p, 2))
    ELSE IF Head(p) = "%"
         THEN LET rest == SkipWild(t, Tail(p))
              IN  IF rest = <<>> THEN "ABORT"
                  ELSE IF rest[2] = <<>> THEN "TRUE"
                  ELSE IF Head(rest[2]) = "\\" /\ Len(rest[2]) < 2 THEN "ERROR"
                  ELSE ScanFor(rest[1], rest[2],
                               IF Head(rest[2]) = "\\" THEN rest[2][2]
                               ELSE Head(rest[2]))
    ELSE IF Head(p) = "_" THEN MatchText(Tail(t), Tail(p))
    ELSE IF Head(p) # Head(t) THEN "FALSE"
    ELSE MatchText(Tail(t), Tail(p))

\* the scan for a text position at which the rest of the pattern matches
ScanFor(t, p, firstpat) ==
    IF t = <<>> THEN "ABORT"
    ELSE LET matched == IF Head(t) = firstpat THEN MatchText(t, p) ELSE "FALSE"
         IN  IF matched # "FALSE" THEN matched ELSE ScanFor(Tail(t), p, firstpat)

\* name ILIKE pattern: both sides are lower-cased, then matched
ILike(name, pattern) == MatchText(LowerStr(name), LowerStr(pattern))

----------------------------------------------------------------------------
(* pokemon_api.py: the request handlers.  Each takes the store and the     *)
(* request and gives the response (status, out) and the store it leaves.   *)

NoBody == [detail |-> "none"]

ScalarColumns ==
    {"id", "name", "height", "weight", "xp", "image_url", "pokemon_url"}

\* response_model=PokemonModel read from a Pokemon row (orm_mode): the
\* columns, URLs validated as HttpUrl, and the three relationship collections
Entity(db, p) ==
    [id          |-> p.id,
     name        |-> p.name,
     height      |-> p.height,
     weight      |-> p.weight,
     xp          |-> p.xp,
     image_url   |-> HttpUrl(p.image_url),
     pokemon_url |-> HttpUrl(p.pokemon_url),
     abilities   |-> Collection(db.abilities, p.id),
     stats       |-> Collection(db.stats, p.id),
     types       |-> Collection(db.types, p.id)]

\* GET /pokemon/{pokemon_id}
get_pokemon_by_id(db, pokemon_id) ==
    LET found == ById(db, pokemon_id)
    IN  IF found # {}
        THEN [status |-> "200", out |-> Entity(db, CHOOSE p \in found : TRUE),
              db |-> db]
        ELSE [status |-> "404", out |-> NoBody, db |-> db]

\* GET /pokemon/name/{pokemon_name}: the set of responses the request can
\* get; .first() has no ORDER BY, so any matching row may be the first.
get_pokemon_by_name(db, pokemon_name) ==
    LET verdict(p) == ILike(p.name, pokemon_name)
        matches == {p \in db.pokemons : verdict(p) = "TRUE"}
    IN  IF \E p \in db.pokemons : verdict(p) = "ERROR"
        THEN {[status |-> "500", out |-> NoBody, db |-> db]}
        ELSE IF matches # {}
        THEN {[status |-> "200", out |-> Entity(db, p), db |-> db] : p \in matches}
        ELSE {[status |-> "404", out |-> NoBody, db |-> db]}

\* Faulty variant: new_pokemon.types is never assigned.
InsertPokemonWithoutTypes(db, pokemon) ==
    LET row == [k \in ScalarColumns |-> pokemon[k]]
    IN  IF ~PrimaryKeyOk(db, row) THEN [ok |-> FALSE, db |-> db]
        ELSE [ok |-> TRUE,
              db |-> [pokemons  |-> db.pokemons \cup {row},
                      abilities |-> InsertChildRows(db.abilities, pokemon.abilities, row.id),
                      stats     |-> InsertChildRows(db.stats, pokemon.stats, row.id),
                      types     |-> db.types]]

\* db.add(new_pokemon) and the flush of db.commit(): the row and its child
\* rows are inserted, unless the primary key refuses the row
InsertPokemon(db, pokemon) ==
    LET row == [k \in ScalarColumns |-> pokemon[k]]
    IN  IF ~PrimaryKeyOk(db, row) THEN [ok |-> FALSE, db |-> db]
        ELSE [ok |-> TRUE,
              db |-> [pokemons  |-> db.pokemons \cup {row},
                      abilities |-> InsertChildRows(db.abilities, pokemon.abilities, row.id),
                      stats     |-> InsertChildRows(db.stats, pokemon.stats, row.id),
                      types     |-> InsertChildRows(db.types, pokemon.types, row.id)]]

\* Faulty variant: no existence check, the body replaces the stored Pokemon
\* (db.merge in place of the check and db.add).
create_pokemon_overwriting(db, raw) ==
    LET pokemon == PokemonModel(raw)
        row == [k \in ScalarColumns |-> pokemon[k]]
        db1 == [pokemons  |-> (db.pokemons \ ById(db, row.id)) \cup {row},
                abilities |-> InsertChildRows(DeleteChildRows(db.abilities, row.id), pokemon.abilities, row.id),
                stats     |-> InsertChildRows(DeleteChildRows(db.stats, row.id), pokemon.stats, row.id),
                types     |-> InsertChildRows(DeleteChildRows(db.types, row.id), pokemon.types, row.id)]
    IN  [status |-> "200", out |-> Entity(db1, row), db |-> db1]

\* POST /pokemon/
create_pokemon(db, raw) ==
    LET pokemon == PokemonModel(raw)
        existing_pokemon == ById(db, pokemon.id)
        added == InsertPokemon(db, pokemon)
    IN  IF existing_pokemon # {}
        THEN [status |-> "400", out |-> NoBody, db |-> db]
        ELSE IF ~added.ok
        THEN [status |-> "500", out |-> NoBody, db |-> db]
        ELSE [status |-> "200",
              out |-> Entity(added.db, CHOOSE p \in ById(added.db, pokemon.id) : TRUE),
              db |-> added.db]

\* Faulty variant: the supplied rows are added to the existing ones.
AppendChildren(B, raw, key, pokemon_id) ==
    IF key \in DOMAIN raw THEN InsertChildRows(B, raw[key], pokemon_id) ELSE B

\* the update of one child collection: replaced when the body supplies a
\* list (is not None), left alone when it does not
ReplaceChildren(B, raw, key, pokemon_id) ==
    IF key \in DOMAIN raw
    THEN InsertChildRows(DeleteChildRows(B, pokemon_id), raw[key], pokemon_id)
    ELSE B

\* PUT /pokemon/{pokemon_id}; the response is a PokemonUpdateModel, which
\* has no id
update_pokemon(db, pokemon_id, raw) ==
    LET found == ById(db, pokemon_id)
        pokemon == CHOOSE p \in found : TRUE
        supplied == UpdateScalars(raw)
        updated == [k \in ScalarColumns |->
                       IF k \in DOMAIN supplied THEN supplied[k] ELSE pokemon[k]]
        db1 == [pokemons  |-> (db.pokemons \ {pokemon}) \cup {updated},
                abilities |-> ReplaceChildren(db.abilities, raw, "abilities", pokemon_id),
                stats     |-> ReplaceChildren(db.stats, raw, "stats", pokemon_id),
                types     |-> ReplaceChildren(db.types, raw, "types", pokemon_id)]
    IN  IF found = {}
        THEN [status |-> "404", out |-> NoBody, db |-> db]
        ELSE [status |-> "200", out |-> Without(Entity(db1, updated), "id"), db |-> db1]

\* Faulty variant: the row is deleted without its children (no cascade).
delete_pokemon_without_cascade(db, pokemon_id) ==
    LET found == ById(db, pokemon_id)
    IN  IF found = {}
        THEN [status |-> "404", out |-> NoBody, db |-> db]
        ELSE [status |-> "200", out |-> NoBody,
              db |-> [db EXCEPT !.pokemons = @ \ found]]

\* DELETE /pokemon/{pokemon_id}; cascade="all, delete" deletes the child
\* rows with the row.  The body of the answer is not modelled.
delete_pokemon(db, pokemon_id) ==
    LET found == ById(db, pokemon_id)
    IN  IF found = {}
        THEN [status |-> "404", out |-> NoBody, db |-> db]
        ELSE [status |-> "200", out |-> NoBody,
              db |-> [pokemons  |-> db.pokemons \ found,
                      abilities |-> DeleteChildRows(db.abilities, pokemon_id),
                      stats     |-> DeleteChildRows(db.stats, pokemon_id),
                      types     |-> DeleteChildRows(db.types, pokemon_id)]]

----------------------------------------------------------------------------
(* pokemon_api.py: load_data, the startup seed load *)

PokemonKeys == ScalarColumns

\* Faulty variant: a record whose id is found replaces the stored Pokemon
\* (db.merge in place of the existence check).
LoadRecordOverwriting(txn, p) ==
    IF ~(PokemonKeys \cup ChildTables \subseteq DOMAIN p) THEN [ok |-> FALSE, db |-> txn]
    ELSE [ok |-> TRUE, db |-> create_pokemon_overwriting(txn, p).db]

\* One record of the fetched array inside the load's transaction txn:
\* skipped when its id is found (the query autoflushes, so it also sees the
\* rows this load added), else added with its children.  A missing key
\* raises KeyError at the place the code reads it.
LoadRecord(txn, p) ==
    IF "id" \notin DOMAIN p THEN [ok |-> FALSE, db |-> txn]
    ELSE IF ById(txn, p.id) # {} THEN [ok |-> TRUE, db |-> txn]
    ELSE IF ~(PokemonKeys \subseteq DOMAIN p) THEN [ok |-> FALSE, db |-> txn]
    ELSE LET row == [k \in ScalarColumns |-> p[k]]
             t0 == [txn EXCEPT !.pokemons = @ \cup {row}]
         IN  IF "abilities" \notin DOMAIN p THEN [ok |-> FALSE, db |-> t0]
             ELSE LET t1 == [t0 EXCEPT !.abilities = InsertChildRows(@, p.abilities, p.id)]
                  IN  IF "stats" \notin DOMAIN p THEN [ok |-> FALSE, db |-> t1]
                      ELSE LET t2 == [t1 EXCEPT !.stats = InsertChildRows(@, p.stats, p.id)]
                           IN  IF "types" \notin DOMAIN p THEN [ok |-> FALSE, db |-> t2]
                               ELSE [ok |-> TRUE,
                                     db |-> [t2 EXCEPT !.types = InsertChildRows(@, p.types, p.id)]]

\* for p in data: ... ; the transaction after the records from k on, and
\* whether the loop ran to its end
RECURSIVE LoadRecords(_, _, _)
LoadRecords(txn, data, k) ==
    IF k > Len(data) THEN [ok |-> TRUE, db |-> txn]
    ELSE LET one == LoadRecord(txn, data[k])
         IN  IF one.ok THEN LoadRecords(one.db, data, k + 1) ELSE one

\* Faulty variant: db.commit() in a finally clause, reached on failure too.
LoadOutcomeCommitAlways(db, loaded) == loaded.db

\* what the try block leaves in the store: the transaction when db.commit()
\* is reached, the store as it was when an exception ends the block first
LoadOutcome(db, loaded) == IF loaded.ok THEN loaded.db ELSE db

\* load_data(): fetched.kind is "unreachable" (urlopen raises), "malformed"
\* (json.loads raises) or "array", with the parsed array in fetched.data.
\* Every exception is caught and printed.
load_data(db, fetched) ==
    IF fetched.kind # "array"
    THEN [status |-> "aborted", db |-> db]
    ELSE LET loaded == LoadRecords(db, fetched.data, 1)
         IN  [status |-> IF loaded.ok THEN "committed" ELSE "aborted",
              db |-> LoadOutcome(db, loaded)]

----------------------------------------------------------------------------
(* The requests and the seed data the model draws *)

Overgrow == [name |-> "overgrow", is_hidden |-> FALSE]

Overgrows == [k \in 1..MaxCopies |-> Overgrow]

Hp == [name |-> "hp", base_stat |-> 45]

Grass == [name |-> "grass"]

\* create bodies for identifier i: the schema's minimum, and a full body
\* with a URL written with surrounding blanks and a repeated ability
MinimalBody(i) ==
    [id |-> i, name |-> <<"B">>, abilities |-> <<>>, stats |-> <<>>, types |-> <<>>]

FullBody(i) ==
    [id |-> i, name |-> <<"a", "b">>, height |-> 7, weight |-> 69, xp |-> 64,
     image_url |-> <<" ", "u">>, pokemon_url |-> <<"v">>,
     abilities |-> Overgrows, stats |-> <<Hp>>, types |-> <<Grass>>]

CreateBodies == {MinimalBody(i) : i \in Ids} \cup {FullBody(i) : i \in Ids}

UpdateBodies ==
    {[name |-> <<"B">>],
     [name |-> <<"a", "b">>],
     [name |-> <<"a", "b">>, height |-> 7, image_url |-> <<"u", " ">>],
     [name |-> <<"B">>, abilities |-> <<>>],
     [name |-> <<"B">>, abilities |-> Overgrows],
     [name |-> <<"B">>, stats |-> <<>>],
     [name |-> <<"B">>, stats |-> <<Hp>>],
     [name |-> <<"B">>, types |-> <<>>],
     [name |-> <<"B">>, types |-> <<Grass>>]}

\* requested names: every text of one or two of these characters
Chars == {"A", "b", "_", "%", "\\"}

ReqNames == {<<c>> : c \in Chars} \cup {<<c, d>> : c \in Chars, d \in Chars}

\* seed records, as the JSON source gives them
SeedFull(i) ==
    [id |-> i, name |-> <<"a", "b">>, height |-> 7, weight |-> 69, xp |-> 64,
     image_url |-> <<"u">>, pokemon_url |-> <<"v">>,
     abilities |-> Overgrows, stats |-> <<Hp>>, types |-> <<Grass>>]

SeedPlain(i) ==
    [id |-> i, name |-> <<"B">>, height |-> 0, weight |-> 0, xp |-> 0,
     image_url |-> None, pokemon_url |-> None,
     abilities |-> <<>>, stats |-> <<>>, types |-> <<>>]

\* what the fetch can give: no answer, text that is not JSON, or an array,
\* here with a repeated id, with a record lacking a column and with a
\* record lacking a child list
SeedArrays ==
    {<<SeedFull(1), SeedPlain(2)>>,
     <<SeedPlain(1), SeedFull(1)>>,
     <<SeedPlain(2), Without(SeedFull(1), "xp")>>,
     <<SeedPlain(1), Without(SeedFull(2), "stats")>>}

Fetches ==
    {[kind |-> "unreachable", data |-> <<>>], [kind |-> "malformed", data |-> <<>>]}
        \cup {[kind |-> "array", data |-> d] : d \in SeedArrays}

----------------------------------------------------------------------------
(* The service, one request at a time *)

Store(db) ==
    /\ pokemons' = db.pokemons
    /\ abilities' = db.abilities
    /\ stats' = db.stats
    /\ types' = db.types

LoadData ==
    \E fetched \in Fetches :
        LET r == load_data(DB, fetched)
        IN  /\ Store(r.db)
            /\ resp' = [op |-> "load", status |-> r.status, arg |-> {fetched.kind}]
            /\ UNCHANGED <<creator, loader>>

GetPokemonById ==
    \E i \in Ids :
        LET r == get_pokemon_by_id(DB, i)
        IN  /\ Store(r.db)
            /\ resp' = [op |-> "get_id", status |-> r.status, arg |-> {}]
            /\ UNCHANGED <<creator, loader>>

GetPokemonByName ==
    \E n \in ReqNames :
        \E r \in get_pokemon_by_name(DB, n) :
            /\ Store(r.db)
            /\ resp' = [op |-> "get_name", status |-> r.status, arg |-> {}]
            /\ UNCHANGED <<creator, loader>>

CreatePokemon ==
    \E raw \in CreateBodies :
        LET r == create_pokemon(DB, raw)
        IN  /\ Store(r.db)
            /\ resp' = [op |-> "create", status |-> r.status, arg |-> {}]
            /\ UNCHANGED <<creator, loader>>

UpdatePokemon ==
    \E i \in Ids, raw \in UpdateBodies :
        LET r == update_pokemon(DB, i, raw)
        IN  /\ Store(r.db)
            /\ resp' = [op |-> "update", status |-> r.status, arg |-> DOMAIN raw]
            /\ UNCHANGED <<creator, loader>>

DeletePokemon ==
    \E i \in Ids :
        LET r == delete_pokemon(DB, i)
        IN  /\ Store(r.db)
            /\ resp' = [op |-> "delete", status |-> r.status, arg |-> {}]
            /\ UNCHANGED <<creator, loader>>

----------------------------------------------------------------------------
(* Requests in flight together: the steps of create_pokemon and of         *)
(* load_data as the database sees them, each in a transaction of its own.  *)
(* A query reads the committed rows and the transaction's own; an INSERT   *)
(* of an id that another open transaction has inserted waits for that      *)
(* transaction to end (the primary key's index).                          *)

Merge(db, own) ==
    [pokemons  |-> db.pokemons \cup own.pokemons,
     abilities |-> db.abilities (+) own.abilities,
     stats     |-> db.stats (+) own.stats,
     types     |-> db.types (+) own.types]

IdleCreator == [pc |-> "idle", raw |-> MinimalBody(1), status |-> "none"]

IdleLoader ==
    [pc |-> "idle", data |-> <<>>, k |-> 1, own |-> EmptyDB,
     staged |-> <<>>, status |-> "none"]

\* the ids inserted and not yet committed by the creators other than c
HeldByCreators(c) ==
    {creator[d].raw.id : d \in {e \in Creators \ {c} : creator[e].pc = "commit"}}

HeldByLoader == {p.id : p \in loader.own.pokemons}

\* a create request arrives
CreateBegin(c) ==
    /\ creator[c].pc = "idle"
    /\ \E raw \in {MinimalBody(1), FullBody(1)} :
           creator' = [creator EXCEPT ![c] = [pc |-> "check", raw |-> raw, status |-> "none"]]
    /\ UNCHANGED <<pokemons, abilities, stats, types, resp, loader>>

\* existing_pokemon = db.query(Pokemon).filter(Pokemon.id == pokemon.id).first()
CreateCheck(c) ==
    /\ creator[c].pc = "check"
    /\ creator' = [creator EXCEPT ![c] =
           IF ById(DB, PokemonModel(creator[c].raw).id) # {}
           THEN [@ EXCEPT !.pc = "done", !.status = "400"]
           ELSE [@ EXCEPT !.pc = "insert"]]
    /\ UNCHANGED <<pokemons, abilities, stats, types, resp, loader>>

\* db.add(new_pokemon) and the INSERT that db.commit() flushes
CreateInsert(c) ==
    /\ creator[c].pc = "insert"
    /\ creator[c].raw.id \notin HeldByCreators(c) \cup HeldByLoader
    /\ creator' = [creator EXCEPT ![c] =
           IF InsertPokemon(DB, PokemonModel(creator[c].raw)).ok
           THEN [@ EXCEPT !.pc = "commit"]
           ELSE [@ EXCEPT !.pc = "done", !.status = "500"]]
    /\ UNCHANGED <<pokemons, abilities, stats, types, resp, loader>>

\* the COMMIT of db.commit()
CreateCommit(c) ==
    /\ creator[c].pc = "commit"
    /\ Store(InsertPokemon(DB, PokemonModel(creator[c].raw)).db)
    /\ creator' = [creator EXCEPT ![c] = [@ EXCEPT !.pc = "done", !.status = "200"]]
    /\ UNCHANGED <<resp, loader>>

\* the startup event: the fetch and json.loads
LoaderBegin ==
    /\ loader.pc = "idle"
    /\ \E fetched \in Fetches :
           loader' = IF fetched.kind # "array"
                     THEN [IdleLoader EXCEPT !.pc = "done", !.status = "aborted"]
                     ELSE [IdleLoader EXCEPT !.pc = "query", !.data = fetched.data]
    /\ UNCHANGED <<pokemons, abilities, stats, types, resp, creator>>

\* the loop's query for record k and, when it finds no row, the db.add
\* calls that stage the record
LoaderQuery ==
    /\ loader.pc = "query"
    /\ LET view == Merge(DB, loader.own)
           p == loader.data[loader.k]
           one == LoadRecord(view, p)
       IN  loader' =
               IF ~one.ok
               THEN [IdleLoader EXCEPT !.pc = "done", !.status = "aborted"]
               ELSE [loader EXCEPT !.staged = IF one.db = view THEN <<>> ELSE <<p>>,
                                   !.k = @ + 1,
                                   !.pc = "flush"]
    /\ UNCHANGED <<pokemons, abilities, stats, types, resp, creator>>

\* the autoflush before the next query, or the flush of db.commit(): the
\* INSERT of the staged record
LoaderFlush ==
    /\ loader.pc = "flush"
    /\ LET next == IF loader.k > Len(loader.data) THEN "commit" ELSE "query"
       IN  IF loader.staged = <<>>
           THEN loader' = [loader EXCEPT !.pc = next]
           ELSE LET p == loader.staged[1]
                IN  /\ p.id \notin HeldByCreators(0)
                    /\ loader' =
                           IF InsertPokemon(DB, p).ok
                           THEN [loader EXCEPT !.own = InsertPokemon(@, p).db,
                                               !.staged = <<>>,
                                               !.pc = next]
                           ELSE [IdleLoader EXCEPT !.pc = "done", !.status = "aborted"]
    /\ UNCHANGED <<pokemons, abilities, stats, types, resp, creator>>

\* the COMMIT of db.commit()
LoaderCommit ==
    /\ loader.pc = "commit"
    /\ Store(Merge(DB, loader.own))
    /\ loader' = [IdleLoader EXCEPT !.pc = "done", !.status = "committed"]
    /\ UNCHANGED <<resp, creator>>

----------------------------------------------------------------------------
Init ==
    /\ pokemons = {}
    /\ abilities = EmptyBag
    /\ stats = EmptyBag
    /\ types = EmptyBag
    /\ resp = [op |-> "start", status |-> "none", arg |-> {}]
    /\ creator = [c \in Creators |-> IdleCreator]
    /\ loader = IdleLoader

Next ==
    \/ LoadData
    \/ GetPokemonById
    \/ GetPokemonByName
    \/ CreatePokemon
    \/ UpdatePokemon
    \/ DeletePokemon

Spec == Init /\ [][Next]_vars

NextConc ==
    \/ \E c \in Creators : CreateBegin(c)
    \/ \E c \in Creators : CreateCheck(c)
    \/ \E c \in Creators : CreateInsert(c)
    \/ \E c \in Creators : CreateCommit(c)
    \/ LoaderBegin
    \/ LoaderQuery
    \/ LoaderFlush
    \/ LoaderCommit

SpecConc == Init /\ [][NextConc]_vars

----------------------------------------------------------------------------
(* The claims *)

Tables(db) == <<db.pokemons, db.abilities, db.stats, db.types>>

\* the child rows of Pokemon i in the three child tables
Children(db, i) ==
    <<ChildRows(db.abilities, i), ChildRows(db.stats, i), ChildRows(db.types, i)>>

ChildRowsAll(db) == DOMAIN db.abilities \cup DOMAIN db.stats \cup DOMAIN db.types

\* C1: a create whose identifier is already in the store is answered 400
\* and leaves every table exactly as it was.
C1_DuplicateCreateRejected ==
    \A raw \in CreateBodies :
        ById(DB, raw.id) # {} =>
            LET r == create_pokemon(DB, raw)
            IN  r.status = "400" /\ Tables(r.db) = Tables(DB)

\* a create was just refused, for an identifier whose stored row differs
\* from both bodies the requests draw for it
C1_Witness ==
    /\ resp.op = "create" /\ resp.status = "400"
    /\ \E p \in pokemons : p.name = <<"B">> /\ p.height = 7

Trimmed(url) ==
    IF url = None THEN None
    ELSE LET keep == {k \in DOMAIN url : url[k] # " "}
         IN  IF keep = {} THEN <<>>
             ELSE SubSeq(url, CHOOSE k \in keep : \A j \in keep : k <= j,
                              CHOOSE k \in keep : \A j \in keep : k >= j)

C4_NameOnlyUpdate ==
    \A i \in Ids, raw \in UpdateBodies :
        LET r == update_pokemon(DB, i, raw)
        IN  (DOMAIN raw = {"name"} /\ r.status = "200") =>
                \E p \in ById(DB, i) :
                    /\ r.db.pokemons = (pokemons \ {p}) \cup {[p EXCEPT !.name = raw.name]}
                    /\ r.out.name = raw.name
                    /\ <<r.db.abilities, r.db.stats, r.db.types>> = <<abilities, stats, types>>

\* a name-only update was just applied to a Pokemon created from the full
\* body: its other columns and its children are not the schema's defaults
C4_Witness ==
    /\ resp.op = "update" /\ resp.status = "200" /\ resp.arg = {"name"}
    /\ \E p \in pokemons :
           /\ p.name = <<"B">> /\ p.height = 7 /\ p.weight = 69 /\ p.xp = 64
           /\ p.image_url = <<"u">> /\ p.pokemon_url = <<"v">>
           /\ \A t \in Range(Children(DB, p.id)) : t # EmptyBag

\* C5: for each child collection, an update that supplies a list leaves
\* exactly the supplied rows (none for the empty list), an update that omits
\* it leaves it unchanged, and no other Pokemon's children change.
C5_ChildCollectionsReplaced ==
    \A i \in Ids, raw \in UpdateBodies :
        LET r == update_pokemon(DB, i, raw)
        IN  r.status = "200" =>
                /\ \A t \in ChildTables :
                       IF t \in DOMAIN raw
                       THEN Collection(r.db[t], i) = SeqToBag(raw[t])
                       ELSE ChildRows(r.db[t], i) = ChildRows(DB[t], i)
                /\ \A j \in Ids \ {i} : Children(r.db, j) = Children(DB, j)

\* an update just replaced the abilities of one Pokemon by the empty list:
\* it has no abilities, and keeps its stats and types
C5_Witness ==
    /\ resp.op = "update" /\ resp.status = "200" /\ resp.arg = {"name", "abilities"}
    /\ \E p \in pokemons :
           /\ ChildRows(abilities, p.id) = EmptyBag
           /\ ChildRows(stats, p.id) # EmptyBag
           /\ ChildRows(types, p.id) # EmptyBag
    /\ \E p \in pokemons : ChildRows(abilities, p.id) # EmptyBag

\* no stored name is the requested text when letter case is ignored
NoSuchName(db, n) == \A p \in db.pokemons : LowerStr(p.name) # LowerStr(n)

\* C6: for an identifier or a name that no row has, get-by-id, get-by-name,
\* update and delete answer 404, never another error, and leave the store
\* as it was.
C6_AbsentIsNotFound ==
    /\ \A i \in Ids :
           ById(DB, i) = {} =>
               /\ get_pokemon_by_id(DB, i).status = "404"
               /\ delete_pokemon(DB, i).status = "404"
               /\ Tables(delete_pokemon(DB, i).db) = Tables(DB)
               /\ \A raw \in UpdateBodies :
                      /\ update_pokemon(DB, i, raw).status = "404"
                      /\ Tables(update_pokemon(DB, i, raw).db) = Tables(DB)
    /\ \A n \in ReqNames :
           NoSuchName(DB, n) =>
               \A r \in get_pokemon_by_name(DB, n) :
                   r.status = "404" /\ Tables(r.db) = Tables(DB)

\* C7: get-by-name returns a Pokemon only if its name is the requested text
\* when letter case is ignored, and answers 404 when no stored name is.
C7_NameMatchIsExact ==
    \A n \in ReqNames :
        \A r \in get_pokemon_by_name(DB, n) :
            /\ r.status = "200" => LowerStr(r.out.name) = LowerStr(n)
            /\ NoSuchName(DB, n) => r.status = "404"

\* C8: a seed load leaves every Pokemon already in the store, and its child
\* rows, as they were; the store holds no identifier twice after it; and
\* loading the same data again changes nothing more.
C8_LoadSkipsExisting ==
    \A fetched \in Fetches :
        LET once == load_data(DB, fetched).db
            twice == load_data(once, fetched).db
        IN  /\ \A p \in pokemons :
                   p \in once.pokemons /\ Children(once, p.id) = Children(DB, p.id)
            /\ \A p, q \in once.pokemons : p.id = q.id => p = q
            /\ Tables(twice) = Tables(once)

\* a load just committed into a store whose Pokemon 1 is not the seed's
\* Pokemon 1: the row is still the one a create stored, and Pokemon 2 is in
C8_Witness ==
    /\ resp.op = "load" /\ resp.status = "committed"
    /\ \E p \in pokemons : p.id = 1 /\ p.name = <<"B">> /\ p.height = 7
    /\ ById(DB, 2) # {}

\* the seed records of an array that carry every column and child list
Complete(p) == PokemonKeys \cup ChildTables \subseteq DOMAIN p

C9_UniqueUnderConcurrency ==
    /\ [](\A p, q \in pokemons : p.id = q.id => p = q)
    /\ [](\A c, d \in Creators :
             (creator[c].status = "200" /\ creator[d].status = "200"
                  /\ creator[c].raw.id = creator[d].raw.id) => c = d)
    /\ [][\A c \in Creators :
             (creator[c].status # "200" /\ creator'[c].status = "200")
                 => ById(DB, creator[c].raw.id) = {}]_vars

\* two creates of one identifier raced past the existence check: one
\* committed, the other was refused by the INSERT
C9_Witness ==
    \E c, d \in Creators :
        /\ creator[c].status = "200" /\ creator[d].status = "500"
        /\ creator[c].raw.id = creator[d].raw.id

====
